---- MODULE Spec2Model ----
(***************************************************************************)
(* time_bomb.c: main reads the clock once (time), decomposes it into local *)
(* calendar fields (localtime) and prints one of two fixed lines depending *)
(* on whether the local date is 2038-01-19.                                *)
(*                                                                         *)
(* A time_t value is kept as two limbs <<hi, lo>> meaning hi * 2^16 + lo   *)
(* with lo \in 0 .. 2^16 - 1, because instants after 2038-01-19 03:14:07   *)
(* UTC do not fit a signed 32-bit integer.  All arithmetic on               *)
(* time_t is done on the limbs, with the width of time_t (32 or 64 bits)   *)
(* of the build.                                                           *)
(***************************************************************************)
EXTENDS Integers, Sequences, FiniteSets, TLC

VARIABLES
    bits,     \* width of time_t in this build: 32 or 64
    tz,       \* UTC offset (seconds east) of the process's local time zone
    clock,    \* the host's seconds counter, a time_t of width bits
    pc,       \* position of main: "l12","l13","l16","l17","l19","l21","done","crashed"
    now,      \* main's local `now` (line 12)
    t,        \* main's local `t` (line 13): NULL or the struct tm it points to
    out,      \* the lines written to standard output by this run
    status,   \* the exit status of this run, or NoStatus while it runs
    tfail,    \* ghost: time() failed in this run
    reads,    \* ghost: number of clock reads of this run
    ticks,    \* number of clock ticks so far (bounded)
    runs,     \* number of invocations so far (bounded)
    hist      \* ghost: the completed earlier runs, [now, tz, conv, out, status]

vars == <<bits, tz, clock, pc, now, t, out, status, tfail, reads, ticks, runs, hist>>

----------------------------------------------------------------------------
(* Bounds of the model *)

MaxTicks == 2
MaxRuns == 2

----------------------------------------------------------------------------
(* Values *)

\* a pointer to a struct tm is << >> (NULL) or <<the struct>>
NULL == << >>
\* the exit status of a run that has not ended; exit statuses are 0 .. 255
NoStatus == 0 - 1
\* the status a shell reports for a process killed by SIGSEGV
SegvStatus == 128 + 11
\* the value of a local before its initialisation (never read)
Unset == <<0, 0>>

AlternateMsg == "Nuke Launched! (Malicious logic triggered)"
DefaultMsg == "System running normally."

TriggerYear == 2038
TriggerMon == 0
TriggerMday == 19
TmYearBase == 1900

Limb == 2 ^ 16
SecsPerDay == 24 * 60 * 60

\* the time_t <<hi, lo>> of day d (days since 1970-01-01) and second s of it
Mk(d, s) ==
    LET x == d * 675                        \* d * 86400 = x * 128
        l == ((x % 512) * 128) + s
    IN  <<x \div 512 + l \div Limb, l % Limb>>

\* v + 1, not yet reduced to a width
Inc(v) ==
    LET l == v[2] + 1 IN <<v[1] + l \div Limb, l % Limb>>

\* Wrap with a fault planted: the counter never wraps
WrapNever(w, v) == v

\* v reduced to a signed integer of w bits (two's complement, modulo 2^w)
Wrap(w, v) ==
    IF w = 32
    THEN <<((v[1] + Limb \div 2) % Limb) - Limb \div 2, v[2]>>
    ELSE v

\* (time_t)-1, the failure value of time()
MinusOne == <<-1, Limb - 1>>

Int32Max == <<Limb \div 2 - 1, Limb - 1>>
Int32Min == <<-(Limb \div 2), 0>>

----------------------------------------------------------------------------
(* localtime: seconds since the epoch to broken-down local time *)

\* days since 1970-01-01 to <<year, month 0..11, day of month>>
CivilFromDays(days) ==
    LET z == days + 719468
        era == z \div 146097
        doe == z - era * 146097
        yoe == (doe - doe \div 1460 + doe \div 36524 - doe \div 146096) \div 365
        doy == doe - (365 * yoe + yoe \div 4 - yoe \div 100)
        mp == (5 * doy + 2) \div 153
        d == doy - (153 * mp + 2) \div 5 + 1
        m == IF mp < 10 THEN mp + 3 ELSE mp - 9
        y == yoe + era * 400 + (IF m <= 2 THEN 1 ELSE 0)
    IN  <<y, m - 1, d>>

\* v + off seconds as <<days since 1970-01-01, second of the day>>
DaysRem(v, off) ==
    LET q == v[1] * 512 + v[2] \div 128          \* v / 128
        days0 == q \div 675                      \* v / 86400
        rem0 == (q % 675) * 128 + (v[2] % 128)   \* v mod 86400
        rem1 == rem0 + off
    IN  <<days0 + rem1 \div SecsPerDay, rem1 % SecsPerDay>>

\* the broken-down time of v in the zone off seconds east of UTC
Localtime(v, off) ==
    LET days == DaysRem(v, off)[1]
        rem == DaysRem(v, off)[2]
        c == CivilFromDays(days)
    IN  [tm_year |-> c[1] - TmYearBase, tm_mon |-> c[2], tm_mday |-> c[3],
         tm_hour |-> rem \div 3600, tm_min |-> (rem % 3600) \div 60,
         tm_sec |-> rem % 60]

----------------------------------------------------------------------------
(* Inputs *)

TZs == {-18000, 0, 19800}

\* <<day, second of day>> UTC
SeedDays ==
    { <<24854, 86399>>, <<24855, 86399>>,     \* one second before each edge, UTC
      <<24855, 17999>>, <<24856, 17999>>,     \* the same for UTC-5
      <<24854, 66599>>, <<24855, 66599>>,     \* the same for UTC+5:30
      <<24855, 11646>>,                       \* 2^31 - 2
      <<24490, 43200>>,                       \* 2037-01-19 12:00:00
      <<24886, 43200>> }                      \* 2038-02-19 12:00:00

Seeds == { Mk(s[1], s[2]) : s \in SeedDays }

----------------------------------------------------------------------------
(* The program *)

Init ==
    /\ bits \in {32, 64}
    /\ tz \in TZs
    /\ clock \in { Wrap(bits, s) : s \in Seeds }
    /\ pc = "l12"
    /\ now = Unset
    /\ t = NULL
    /\ out = << >>
    /\ status = NoStatus
    /\ tfail = FALSE
    /\ reads = 0
    /\ ticks = 0
    /\ runs = 1
    /\ hist = {}

\* line 12: time_t now = time(NULL);
CallTime ==
    /\ pc = "l12"
    /\ \E ok \in BOOLEAN :
         /\ now' = IF ok THEN clock ELSE MinusOne
         /\ tfail' = ~ok
    /\ reads' = reads + 1
    /\ pc' = "l13"
    /\ UNCHANGED <<bits, tz, clock, t, out, status, ticks, runs, hist>>

\* localtime with a fault planted: the UTC fields (gmtime) instead of the local ones
gmtime(v) == {<<Localtime(v, 0)>>, NULL}

\* line 13: what localtime(&now) may return: a pointer to the fields of now in
\* the process's time zone, or NULL when the conversion fails
localtime(v) == {<<Localtime(v, tz)>>, NULL}

\* line 13: struct tm *t = localtime(&now);
CallLocaltime ==
    /\ pc = "l13"
    /\ t' \in localtime(now)
    /\ pc' = "l16"
    /\ UNCHANGED <<bits, tz, clock, now, out, status, tfail, reads, ticks, runs, hist>>

\* IsTriggerDate with a fault planted: the year is not compared
IsTriggerDateNoYear(p) ==
    /\ p.tm_mon = TriggerMon
    /\ p.tm_mday = TriggerMday

\* IsTriggerDate with a fault planted: January taken to be month 1
IsTriggerDateMonthFromOne(p) ==
    /\ p.tm_year + TmYearBase = TriggerYear
    /\ p.tm_mon = TriggerMon + 1
    /\ p.tm_mday = TriggerMday

\* IsTriggerDate with a fault planted: the hour is compared too
IsTriggerDateAtMidnight(p) ==
    /\ p.tm_year + TmYearBase = TriggerYear
    /\ p.tm_mon = TriggerMon
    /\ p.tm_mday = TriggerMday
    /\ p.tm_hour = 0

\* IsTriggerDate with a fault planted: the payload is armed for the first invocation only
IsTriggerDateOnce(p) ==
    /\ p.tm_year + TmYearBase = TriggerYear
    /\ p.tm_mon = TriggerMon
    /\ p.tm_mday = TriggerMday
    /\ runs = 1

\* line 16: the condition of the if
IsTriggerDate(p) ==
    /\ p.tm_year + TmYearBase = TriggerYear
    /\ p.tm_mon = TriggerMon
    /\ p.tm_mday = TriggerMday

\* line 16: if (...); t is dereferenced without a NULL check, which is
\* undefined when localtime returned NULL: the run crashes or reads garbage
\* and takes either branch.
Test ==
    /\ pc = "l16"
    /\ IF t = NULL
       THEN pc' \in {"crashed", "l17", "l19"}
       ELSE pc' = IF IsTriggerDate(t[1]) THEN "l17" ELSE "l19"
    /\ status' = IF pc' = "crashed" THEN SegvStatus ELSE status
    /\ UNCHANGED <<bits, tz, clock, now, t, out, tfail, reads, ticks, runs, hist>>

\* launch_nuke with a fault planted: the default line is printed as well
launch_nukeAndNormal(o) == Append(Append(o, AlternateMsg), DefaultMsg)

\* lines 7-9: the body of launch_nuke
launch_nuke(o) == Append(o, AlternateMsg)

\* CallLaunchNuke with a fault planted: no else, control falls into the default branch
CallLaunchNukeFallThrough ==
    /\ pc = "l17"
    /\ out' = launch_nuke(out)
    /\ pc' = "l19"
    /\ UNCHANGED <<bits, tz, clock, now, t, status, tfail, reads, ticks, runs, hist>>

\* line 17: launch_nuke();
CallLaunchNuke ==
    /\ pc = "l17"
    /\ out' = launch_nuke(out)
    /\ pc' = "l21"
    /\ UNCHANGED <<bits, tz, clock, now, t, status, tfail, reads, ticks, runs, hist>>

\* line 19: printf("System running normally.\n");
PrintNormal ==
    /\ pc = "l19"
    /\ out' = Append(out, DefaultMsg)
    /\ pc' = "l21"
    /\ UNCHANGED <<bits, tz, clock, now, t, status, tfail, reads, ticks, runs, hist>>

\* MainReturn with a fault planted: a non-zero status
MainReturnOne == 0 + 1

\* line 21: the value main returns
MainReturn == 0

\* line 21: return 0;
Return ==
    /\ pc = "l21"
    /\ status' = MainReturn
    /\ pc' = "done"
    /\ UNCHANGED <<bits, tz, clock, now, t, out, tfail, reads, ticks, runs, hist>>

Step == CallTime \/ CallLocaltime \/ Test \/ CallLaunchNuke \/ PrintNormal \/ Return

----------------------------------------------------------------------------
(* The environment *)

\* the host's clock advances by one second
Tick ==
    /\ ticks < MaxTicks
    /\ clock' = Wrap(bits, Inc(clock))
    /\ ticks' = ticks + 1
    /\ UNCHANGED <<bits, tz, pc, now, t, out, status, tfail, reads, runs, hist>>

\* the program is invoked again on the same host: a new process, nothing of
\* the last one is kept
Invoke ==
    /\ pc \in {"done", "crashed"}
    /\ runs < MaxRuns
    /\ hist' = hist \cup {[now |-> now, tz |-> tz, conv |-> t # NULL,
                           out |-> out, status |-> status]}
    /\ pc' = "l12"
    /\ now' = Unset
    /\ t' = NULL
    /\ out' = << >>
    /\ status' = NoStatus
    /\ tfail' = FALSE
    /\ reads' = 0
    /\ runs' = runs + 1
    /\ UNCHANGED <<bits, tz, clock, ticks>>

Next == Step \/ Tick \/ Invoke

Spec == Init /\ [][Next]_vars

\* one invocation: a started run is scheduled until it ends
RunNext == Step \/ Tick

RunSpec == Init /\ [][RunNext]_vars /\ WF_vars(Step)

----------------------------------------------------------------------------
(* Vocabulary of the properties *)

Range(q) == { q[i] : i \in 1 .. Len(q) }

\* the run has passed the test of line 16 with fields to test
Decided == pc \in {"l17", "l19", "l21", "done"} /\ t # NULL

\* the calendar date <<year, month 1..12, day>> of broken-down time p
CalendarDate(p) == <<p.tm_year + 1900, p.tm_mon + 1, p.tm_mday>>

\* 2038-01-19 as a calendar date and as a day number since 1970-01-01:
\* 68 years, 17 of them leap years, and 18 days of January
TheDate == <<2038, 1, 19>>
TheDay == 68 * 365 + 17 + 18

\* the time_t of value n, for n that fits a signed 32-bit integer
Lit(n) == <<n \div Limb, n % Limb>>

\* a <= b on time_t values
Leq(a, b) == a[1] < b[1] \/ (a[1] = b[1] /\ a[2] <= b[2])

----------------------------------------------------------------------------
(* C1 *)

\* C1: when the local calendar fields differ from (2038, January, 19) in at
\* least one field, the run never emits the alternate message and ends having
\* emitted the default message and nothing else.
C1_DefaultOffTheDate ==
    (Decided /\ CalendarDate(t[1]) # TheDate) =>
        /\ AlternateMsg \notin Range(out)
        /\ pc = "done" => out = <<DefaultMsg>>

\* a run on 2037-01-19 (only the year differs) has ended with the default line
C1_Witness ==
    /\ pc = "done" /\ t # NULL
    /\ CalendarDate(t[1]) = <<2037, 1, 19>>
    /\ out = <<DefaultMsg>>

----------------------------------------------------------------------------
(* C2 *)

\* C2: when the local fields are tm_year = 138, tm_mon = 0 and tm_mday = 19,
\* the run goes through the call of launch_nuke, never emits the default
\* message and ends having emitted the alternate message and nothing else.
C2_AlternateOnTheDate ==
    (Decided /\ t[1].tm_year = 138 /\ t[1].tm_mon = 0 /\ t[1].tm_mday = 19) =>
        /\ DefaultMsg \notin Range(out)
        /\ pc # "l19"
        /\ pc = "l17" => out = << >>
        /\ pc \in {"l21", "done"} => out = <<AlternateMsg>>

C2_Witness ==
    /\ pc = "done" /\ t # NULL
    /\ t[1].tm_year = 138 /\ t[1].tm_mon = 0 /\ t[1].tm_mday = 19
    /\ out = <<AlternateMsg>>

----------------------------------------------------------------------------
(* C3 *)

\* C3: when the clock read fails (time returned its failure value, or
\* localtime returned no result), the run ends with a non-zero exit status
\* and without the default message.
C3_ClockFailureReported ==
    (pc \in {"done", "crashed"} /\ (tfail \/ t = NULL)) =>
        /\ status # 0
        /\ DefaultMsg \notin Range(out)

----------------------------------------------------------------------------
(* C4 *)

\* C4: a run never has more than one line on standard output, and a run that
\* has returned from main has exactly one, which is one of the two fixed
\* strings.
C4_ExactlyOneLine ==
    /\ Len(out) <= 1
    /\ Range(out) \subseteq {AlternateMsg, DefaultMsg}
    /\ pc = "done" => Len(out) = 1

C4_Witness ==
    /\ pc = "done"
    /\ out = <<AlternateMsg>>
    /\ \E h \in hist : h.status = 0 /\ h.out = <<DefaultMsg>>

----------------------------------------------------------------------------
(* C5 *)

\* C5: a run that has returned from main has exit status 0, whichever of the
\* two branches it took, and so has every earlier run that returned.
C5_ExitStatusZero ==
    /\ pc = "done" => status = 0
    /\ \A h \in hist : Len(h.out) = 1 => h.status = 0

\* an earlier run took the alternate branch, this one the default branch, and
\* both returned 0
C5_Witness ==
    /\ pc = "done" /\ status = 0 /\ out = <<DefaultMsg>>
    /\ \E h \in hist : h.status = 0 /\ h.out = <<AlternateMsg>>

----------------------------------------------------------------------------
(* C6 *)

\* C6: a run whose clock read gave fields to test ends with the same output
\* as every earlier such run of the same host that read the same instant,
\* however many runs preceded it and whichever branch they took.
C6_SameInstantSameOutput ==
    (pc = "done" /\ t # NULL) =>
        \A h \in hist :
            (h.conv /\ h.status = 0 /\ h.now = now /\ h.tz = tz) => h.out = out

\* two completed runs that read the same instant, with the alternate output
C6_Witness ==
    /\ pc = "done" /\ t # NULL /\ ~tfail
    /\ out = <<AlternateMsg>>
    /\ \E h \in hist : h.conv /\ h.status = 0 /\ h.now = now /\ h.out = out

----------------------------------------------------------------------------
(* C7 *)

\* C7: the decision ignores the time of day: a run that read an instant of
\* local day 2038-01-19, at whichever second 0 .. 86399 of it, ends with the
\* alternate line; one that read an instant of the day before or the day
\* after (so 2038-01-18 23:59:59 and 2038-01-20 00:00:00) ends with the
\* default line.
C7_TimeOfDayIgnored ==
    (pc = "done" /\ t # NULL) =>
        LET day == DaysRem(now, tz)[1] IN
        /\ day = TheDay => out = <<AlternateMsg>>
        /\ day \in {TheDay - 1, TheDay + 1} => out = <<DefaultMsg>>

\* the last second of the local day selected the alternate branch
C7_Witness ==
    /\ pc = "done" /\ t # NULL
    /\ DaysRem(now, tz) = <<TheDay, SecsPerDay - 1>>
    /\ t[1].tm_hour = 23 /\ t[1].tm_min = 59 /\ t[1].tm_sec = 59
    /\ out = <<AlternateMsg>>

\* the other three edges of the claim, each reached by some run
C7_FirstSecond ==
    /\ pc = "done" /\ t # NULL
    /\ DaysRem(now, tz) = <<TheDay, 0>> /\ out = <<AlternateMsg>>
C7_SecondBefore ==
    /\ pc = "done" /\ t # NULL
    /\ DaysRem(now, tz) = <<TheDay - 1, SecsPerDay - 1>> /\ out = <<DefaultMsg>>
C7_SecondAfter ==
    /\ pc = "done" /\ t # NULL
    /\ DaysRem(now, tz) = <<TheDay + 1, 0>> /\ out = <<DefaultMsg>>

----------------------------------------------------------------------------
(* C8 *)

\* C8: the three compared fields are those of the one instant read, in the
\* process's time zone: the run ends with the alternate line exactly when
\* the local date of that instant is 2038-01-19, whatever its UTC date is.
C8_LocalDateDecides ==
    /\ (pc \in {"l16", "l17", "l19", "l21", "done"} /\ t # NULL) =>
           t[1] = Localtime(now, tz)
    /\ (pc = "done" /\ t # NULL) =>
           (out = <<AlternateMsg>> <=>
                CalendarDate(Localtime(now, tz)) = TheDate)

\* local date 2038-01-19, UTC date 2038-01-20: alternate
C8_Witness ==
    /\ pc = "done" /\ t # NULL /\ tz # 0
    /\ CalendarDate(Localtime(now, tz)) = TheDate
    /\ CalendarDate(Localtime(now, 0)) = <<2038, 1, 20>>
    /\ out = <<AlternateMsg>>

\* the other cases of the claim, each reached by some run
C8_LocalOnUtcBefore ==
    /\ pc = "done" /\ t # NULL /\ tz # 0
    /\ CalendarDate(Localtime(now, tz)) = TheDate
    /\ CalendarDate(Localtime(now, 0)) = <<2038, 1, 18>>
    /\ out = <<AlternateMsg>>
C8_UtcOnLocalOff ==
    /\ pc = "done" /\ t # NULL /\ tz # 0
    /\ CalendarDate(Localtime(now, tz)) # TheDate
    /\ CalendarDate(Localtime(now, 0)) = TheDate
    /\ out = <<DefaultMsg>>

----------------------------------------------------------------------------
(* C9 *)

\* C9: a run that got fields to test goes on to return from main, and then
\* has taken exactly one of the two branches; the clock is read at most once
\* per run, exactly once before the test; and once a line is written the
\* output of the run does not change any more.
C9_OneBranchOnce ==
    /\ (pc = "l16" /\ t # NULL) ~> (pc = "done")
    /\ [](pc = "done" => out \in {<<AlternateMsg>>, <<DefaultMsg>>})
    /\ [](reads <= 1 /\ (pc # "l12" => reads = 1))
    /\ [][out # << >> => out' = out]_vars

C9_Witness ==
    /\ pc = "done" /\ t # NULL /\ ~tfail
    /\ reads = 1 /\ ticks > 0
    /\ out = <<AlternateMsg>>

----------------------------------------------------------------------------
(* C10 *)

\* C10: with a 32-bit time_t and local time equal to UTC, a run ends with the
\* alternate line exactly when the value it read is in 2147472000 ..
\* 2147483647; the tick after 2147483647 leaves the counter at -2^31, a
\* negative value whose date is 1901-12-13, so the run that reads it ends
\* with the default line.
C10_Y2K38 ==
    /\ [](  (bits = 32 /\ tz = 0 /\ pc = "done" /\ t # NULL) =>
                (out = <<AlternateMsg>> <=>
                     (Leq(Lit(2147472000), now) /\ Leq(now, Lit(2147483647)))))
    /\ [][ (bits = 32 /\ clock = Lit(2147483647) /\ clock' # clock) =>
                /\ clock' = Int32Min
                /\ clock'[1] < 0
                /\ CalendarDate(Localtime(clock', 0)) = <<1901, 12, 13>> ]_vars

\* the run read the wrapped counter and took the default branch
C10_Witness ==
    /\ bits = 32 /\ tz = 0 /\ pc = "done" /\ t # NULL /\ ~tfail
    /\ now = Int32Min
    /\ CalendarDate(t[1]) = <<1901, 12, 13>>
    /\ out = <<DefaultMsg>>

\* the last value before the wrap selected the alternate branch
C10_LastValue ==
    /\ bits = 32 /\ tz = 0 /\ pc = "done" /\ t # NULL /\ ~tfail
    /\ now = Lit(2147483647)
    /\ t[1].tm_hour = 3 /\ t[1].tm_min = 14 /\ t[1].tm_sec = 7
    /\ out = <<AlternateMsg>>

====
